---- MODULE Spec2Model ----
(***************************************************************************)
(* Order lifecycle, payment reconciliation and provider plans of the       *)
(* marketplace backend.                                                    *)
(*                                                                         *)
(* A document is a record whose domain is the set of fields it carries,   *)
(* so that a missing field, the object spread {...a, ...b} and the store's *)
(* field-merging update can be written as they are in the source.          *)
(* The store is a function from the ids of the stored orders to their      *)
(* documents.                                                              *)
(***************************************************************************)
EXTENDS Integers, Sequences, FiniteSets, TLC

VARIABLES
    orders,     \* the 'orders' collection: order id -> document
    now,        \* the clock read by new Date()
    last,       \* the request handled last and its outcome, until answered
    flight,     \* webhook deliveries in flight: delivery -> its position and locals
    event,      \* the event the deliveries in flight carry
    orig,       \* the order document the deliveries started from
    hist,       \* the stored document at the end of each finished delivery
    overlapped, \* TRUE once two deliveries have been in flight together
    plans,      \* the 'providerPlans' collection: provider id -> document
    users,      \* the 'users' collection: user id -> document
    today,      \* the day new Date() falls on, for the plan engine
    sessions    \* the gateway's checkout sessions for plans: session id -> session

vars == <<orders, now, last, flight, event, orig, hist, overlapped,
          plans, users, today, sessions>>

(***************************************************************************)
(* Bounds of the model.                                                    *)
(***************************************************************************)
MaxClock == 3
MaxDeliveries == 2
MaxPlanClock == 4

MaxPayClock == 4

(***************************************************************************)
(* Enumerations and input sets.                                            *)
(***************************************************************************)
ORDER_STATUS ==
    {"pending", "confirmed", "in_progress", "completed", "cancelled", "refunded"}

PAYMENT_STATUS ==
    {"pending", "paid", "failed", "refunded", "partially_refunded"}

\* the roles the cancellation record and the message sender accept
CancelledByValues == {"customer", "provider", "admin"}

\* the roles of the user records
USER_TYPES == {"client", "provider", "admin"}

\* the role strings the order service is called with or compares against
Roles == USER_TYPES \cup {"customer"}

Users == {"u1", "u2", "u3"}

OrderIds == {"o1"}
MissingId == "o9"
RequestIds == OrderIds \cup {MissingId}

StatusInputs == ORDER_STATUS \cup {"bogus"}
PaymentInputs == PAYMENT_STATUS \cup {"bogus"}

EventTypes ==
    {"checkout.session.completed", "payment_intent.succeeded",
     "payment_intent.payment_failed", "customer.created"}

SuccessTypes == {"checkout.session.completed", "payment_intent.succeeded"}

RecognisedTypes == SuccessTypes \cup {"payment_intent.payment_failed"}

\* metadata bags: the one createPaymentSession embeds, and a foreign one
OrderMetadata ==
    {[type |-> "order_payment", orderId |-> o, customerId |-> c] :
        o \in RequestIds, c \in {"u1", "u3"}}

Metadata ==
    OrderMetadata
        \cup {[planName |-> "basic"],
              [type |-> "plan_subscription", orderId |-> "o1", customerId |-> "u1"]}

\* event.data.object with and without a metadata bag
Events ==
    {[type |-> t] : t \in EventTypes}
        \cup {[type |-> t, metadata |-> m] : t \in EventTypes, m \in Metadata}

Ratings == {3, 6}

Has(d, k) == k \in DOMAIN d

(***************************************************************************)
(* models/Order.js                                                         *)
(***************************************************************************)

\* new Date() at time t, and the Timestamp object the store returns for a
\* date it was given
JsDate(t) == <<"Date", t>>

Timestamp(t) == <<"Timestamp", t>>

\* Joi.date(): an instance of Date passes; an object of another class does not
IsDate(v) == v[1] = "Date"

\* orderSchema: the violations of the keys an update can carry
SchemaViolations(d) ==
    {k \in DOMAIN d :
        \/ k = "status" /\ d[k] \notin ORDER_STATUS
        \/ k = "paymentStatus" /\ d[k] \notin PAYMENT_STATUS
        \/ k = "cancellation" /\ Has(d[k], "cancelledBy")
                              /\ d[k].cancelledBy \notin CancelledByValues
        \/ k = "review" /\ Has(d[k], "rating") /\ d[k].rating \notin 1..5
        \/ k = "messages"
              /\ \E i \in 1..Len(d[k]) :
                     \/ d[k][i].senderType \notin CancelledByValues
                     \/ ~IsDate(d[k][i].timestamp)}

\* the schema's .default() values: a key left undefined validates to its default
SchemaDefaults ==
    [status |-> "pending", paymentStatus |-> "pending", messages |-> <<>>]

\* {...a, ...b}
Spread(a, b) == b @@ a

\* updateOrderDocument(existingOrder, updateData): updateSchema is orderSchema
\* with every key made optional, which leaves the defaults in place, so the
\* validated value carries status, paymentStatus and messages also when
\* updateData has none; value.updatedAt is set and value is spread over the
\* existing order
updateOrderDocument(existingOrder, updateData, t) ==
    IF SchemaViolations(updateData) # {}
    THEN [ok |-> FALSE]
    ELSE LET value == Spread(Spread(SchemaDefaults, updateData), [updatedAt |-> t])
         IN  [ok |-> TRUE, doc |-> Spread(existingOrder, value)]

\* createOrderDocument(orderData): the fields of the order the model follows
createOrderDocument(orderData, t) ==
    IF \/ SchemaViolations(orderData) # {}
       \/ ~Has(orderData, "providerId")
       \/ ~Has(orderData, "totalAmount")
       \/ orderData.totalAmount <= 0
    THEN [ok |-> FALSE]
    ELSE [ok |-> TRUE,
          doc |-> Spread(Spread(SchemaDefaults, orderData),
                         [createdAt |-> t, updatedAt |-> t])]

(***************************************************************************)
(* services/orderService.js                                                *)
(* A service call returns ok or the error it throws, the store it leaves   *)
(* and the number of documents it read.                                    *)
(***************************************************************************)
Fail(ords, e, n) == [ok |-> FALSE, err |-> e, orders |-> ords, reads |-> n]

Done(ords, n) == [ok |-> TRUE, err |-> "", orders |-> ords, reads |-> n]

\* getOrderById(orderId)
getOrderById(ords, orderId) ==
    IF orderId \notin DOMAIN ords
    THEN [success |-> FALSE, message |-> "Order not found"]
    ELSE [success |-> TRUE, data |-> Spread([id |-> orderId], ords[orderId])]

\* what doc.data() returns for a document written: the dates of the
\* message list come back as Timestamp objects
Stored(fields) ==
    IF ~Has(fields, "messages") THEN fields
    ELSE [fields EXCEPT
             !.messages = [i \in 1..Len(@) |->
                              [@[i] EXCEPT !.timestamp = Timestamp(@[2])]]]

\* doc(orderId).update(fields): sets the fields given, keeps the others
StoreUpdate(ords, orderId, fields) ==
    [ords EXCEPT ![orderId] = Spread(@, Stored(fields))]

CustomerRoles == {"customer", "client"}

PermissionError_CustomerOnly(existingOrder, userId, userType) ==
    userType = "customer" /\ existingOrder.customerId # userId

\* updateOrder: the two permission checks
PermissionError(existingOrder, userId, userType) ==
    \/ userType \in CustomerRoles /\ existingOrder.customerId # userId
    \/ userType = "provider" /\ existingOrder.providerId # userId

BuildUpdate_Unchecked(existingOrder, updateData, userId, userType, t) ==
    LET u == updateOrderDocument(existingOrder, updateData, t)
    IN  IF u.ok THEN [ok |-> TRUE, err |-> "", doc |-> u.doc]
                ELSE [ok |-> FALSE, err |-> "ValidationError"]

\* updateOrder after its read: permission checks, validation and merge
BuildUpdate(existingOrder, updateData, userId, userType, t) ==
    IF PermissionError(existingOrder, userId, userType)
    THEN [ok |-> FALSE, err |-> "Unauthorized"]
    ELSE LET u == updateOrderDocument(existingOrder, updateData, t)
         IN  IF u.ok THEN [ok |-> TRUE, err |-> "", doc |-> u.doc]
                     ELSE [ok |-> FALSE, err |-> "ValidationError"]

\* updateOrder(orderId, updateData, userId, userType); storeOk: the store
\* accepts the write
updateOrder(ords, orderId, updateData, userId, userType, t, storeOk) ==
    LET orderResult == getOrderById(ords, orderId)
    IN  IF ~orderResult.success THEN Fail(ords, "NotFound", 1)
        ELSE LET b == BuildUpdate(orderResult.data, updateData, userId, userType, t)
             IN  IF ~b.ok THEN Fail(ords, b.err, 1)
                 ELSE IF ~storeOk THEN Fail(ords, "StoreError", 1)
                 ELSE Done(StoreUpdate(ords, orderId, b.doc), 1)

\* updateOrderStatus(orderId, status, userId, userType)
updateOrderStatus(ords, orderId, status, userId, userType, t, storeOk) ==
    IF status \notin ORDER_STATUS THEN Fail(ords, "InvalidStatus", 0)
    ELSE LET updateData ==
                 IF status = "in_progress"
                 THEN [status |-> status, actualStartTime |-> t]
                 ELSE IF status = "completed"
                 THEN [status |-> status, actualEndTime |-> t]
                 ELSE [status |-> status]
         IN  updateOrder(ords, orderId, updateData, userId, userType, t, storeOk)

\* updatePaymentStatus(orderId, paymentStatus, userId, userType)
updatePaymentStatus(ords, orderId, paymentStatus, userId, userType, t, storeOk) ==
    IF paymentStatus \notin PAYMENT_STATUS THEN Fail(ords, "InvalidStatus", 0)
    ELSE updateOrder(ords, orderId, [paymentStatus |-> paymentStatus],
                     userId, userType, t, storeOk)

\* cancelOrder(orderId, cancellationData, userId, userType)
cancelOrder(ords, orderId, cancellationData, userId, userType, t) ==
    LET orderResult == getOrderById(ords, orderId)
    IN  IF ~orderResult.success THEN Fail(ords, "NotFound", 1)
        ELSE LET existingOrder == orderResult.data
             IN  IF existingOrder.status \in {"completed", "cancelled"}
                 THEN Fail(ords, "CannotCancel", 1)
                 ELSE IF \/ userType = "customer"
                            /\ existingOrder.customerId # userId
                         \/ userType = "provider"
                            /\ existingOrder.providerId # userId
                 THEN Fail(ords, "Unauthorized", 1)
                 ELSE LET updateData ==
                              [status |-> "cancelled",
                               cancellation |->
                                   Spread(cancellationData,
                                          [cancelledBy |-> userType,
                                           cancelledAt |-> t])]
                          r == updateOrder(ords, orderId, updateData,
                                           userId, userType, t, TRUE)
                      IN  [r EXCEPT !.reads = @ + 1]

\* addReview(orderId, reviewData, userId, userType)
addReview(ords, orderId, reviewData, userId, userType, t) ==
    LET orderResult == getOrderById(ords, orderId)
    IN  IF ~orderResult.success THEN Fail(ords, "NotFound", 1)
        ELSE LET existingOrder == orderResult.data
             IN  IF userType # "customer" \/ existingOrder.customerId # userId
                 THEN Fail(ords, "Unauthorized", 1)
                 ELSE IF existingOrder.status # "completed"
                 THEN Fail(ords, "CannotReview", 1)
                 ELSE IF Has(existingOrder, "review")
                 THEN Fail(ords, "AlreadyReviewed", 1)
                 ELSE LET review == [rating |-> reviewData.rating,
                                     comment |-> "",
                                     submittedAt |-> t]
                          r == updateOrder(ords, orderId, [review |-> review],
                                           userId, userType, t, TRUE)
                      IN  [r EXCEPT !.reads = @ + 1]

\* addMessage(orderId, messageData, userId, userType)
addMessage(ords, orderId, messageData, userId, userType, t) ==
    LET orderResult == getOrderById(ords, orderId)
    IN  IF ~orderResult.success THEN Fail(ords, "NotFound", 1)
        ELSE LET existingOrder == orderResult.data
             IN  IF \/ userType = "customer"
                       /\ existingOrder.customerId # userId
                    \/ userType = "provider"
                       /\ existingOrder.providerId # userId
                 THEN Fail(ords, "Unauthorized", 1)
                 ELSE LET newMessage == [senderId |-> userId,
                                         senderType |-> userType,
                                         message |-> messageData.message,
                                         timestamp |-> JsDate(t),
                                         isRead |-> FALSE]
                          messages == IF Has(existingOrder, "messages")
                                      THEN existingOrder.messages ELSE <<>>
                          r == updateOrder(ords, orderId,
                                           [messages |-> Append(messages, newMessage)],
                                           userId, userType, t, TRUE)
                      IN  [r EXCEPT !.reads = @ + 1]

createPaymentSession_NoPaidCheck(ords, orderId, customerId, gatewayOk) ==
    LET orderResult == getOrderById(ords, orderId)
    IN  IF ~orderResult.success
        THEN [ok |-> FALSE, err |-> "NotFound", orders |-> ords, asked |-> FALSE]
        ELSE IF orderResult.data.customerId # customerId
        THEN [ok |-> FALSE, err |-> "Unauthorized", orders |-> ords, asked |-> FALSE]
        ELSE IF orderResult.data.status \notin {"pending", "confirmed"}
        THEN [ok |-> FALSE, err |-> "NotPayable", orders |-> ords, asked |-> FALSE]
        ELSE [ok |-> gatewayOk, err |-> IF gatewayOk THEN "" ELSE "GatewayError",
              orders |-> ords, asked |-> TRUE]

\* createPaymentSession(orderId, customerId); gatewayOk: the gateway, when
\* asked, returns a session; asked: createOrderCheckoutSession was called
createPaymentSession(ords, orderId, customerId, gatewayOk) ==
    LET orderResult == getOrderById(ords, orderId)
    IN  IF ~orderResult.success
        THEN [ok |-> FALSE, err |-> "NotFound", orders |-> ords, asked |-> FALSE]
        ELSE LET order == orderResult.data
             IN  IF order.customerId # customerId
                 THEN [ok |-> FALSE, err |-> "Unauthorized", orders |-> ords,
                       asked |-> FALSE]
                 ELSE IF order.status # "pending" /\ order.status # "confirmed"
                 THEN [ok |-> FALSE, err |-> "NotPayable", orders |-> ords,
                       asked |-> FALSE]
                 ELSE IF order.paymentStatus = "paid"
                 THEN [ok |-> FALSE, err |-> "AlreadyPaid", orders |-> ords,
                       asked |-> FALSE]
                 ELSE [ok |-> gatewayOk,
                       err |-> IF gatewayOk THEN "" ELSE "GatewayError",
                       orders |-> ords, asked |-> TRUE]

\* createOrder(orderData, customerId): the new document gets a fresh id
createOrder(ords, orderData, customerId, t) ==
    LET c == createOrderDocument(Spread(orderData, [customerId |-> customerId]), t)
    IN  IF ~c.ok THEN Fail(ords, "ValidationError", 0)
        ELSE IF OrderIds \ DOMAIN ords = {} THEN Fail(ords, "StoreError", 0)
        ELSE LET id == CHOOSE o \in OrderIds : o \notin DOMAIN ords
             IN  Done(ords @@ (id :> c.doc), 1)

(***************************************************************************)
(* routes/orders.js                                                        *)
(***************************************************************************)
\* POST /:id/payment behind verifyToken
postPaymentRoute(ords, orderId, user, gatewayOk) ==
    IF user.userType # "client"
    THEN [ok |-> FALSE, err |-> "Forbidden", orders |-> ords, asked |-> FALSE]
    ELSE createPaymentSession(ords, orderId, user.uid, gatewayOk)

\* POST /:id/review behind verifyToken and requireClient
postReviewRoute(ords, orderId, reviewData, user, t) ==
    IF user.userType # "client" THEN Fail(ords, "Forbidden", 0)
    ELSE addReview(ords, orderId, reviewData, user.uid, user.userType, t)

(***************************************************************************)
(* services/stripeService.js and routes/webhooks.js                        *)
(* A request carries the environment it meets (webhook secret set, gateway *)
(* key set), whether its signature verifies, the event object, and which   *)
(* store write of its handling the store refuses (0: none).                *)
(***************************************************************************)
\* constructWebhookEvent(payload, signature, secret)
constructWebhookEvent(req) ==
    IF ~req.stripeKey THEN [success |-> FALSE, error |-> "Stripe is not configured"]
    ELSE IF ~req.sigOk THEN [success |-> FALSE, error |-> "signature"]
    ELSE [success |-> TRUE, event |-> req.event]

\* session.metadata && session.metadata.type === 'order_payment'
IsOrderPayment(obj) ==
    Has(obj, "metadata") /\ Has(obj.metadata, "type")
        /\ obj.metadata.type = "order_payment"

Handled(ords, h, raised, n) ==
    [orders |-> ords, handler |-> h, raised |-> raised, reads |-> n]

\* the body the two success handlers share: paid, then confirmed; the catch
\* of the handler swallows the error of either call
ReconcilePaid(ords, obj, t, fault, h) ==
    IF ~IsOrderPayment(obj) THEN Handled(ords, h, FALSE, 0)
    ELSE LET orderId == obj.metadata.orderId
             customerId == obj.metadata.customerId
             r1 == updatePaymentStatus(ords, orderId, "paid", customerId,
                                       "client", t, fault # 1)
             r2 == updateOrderStatus(r1.orders, orderId, "confirmed", customerId,
                                     "client", t, fault # 2)
         IN  IF ~r1.ok THEN Handled(r1.orders, h, TRUE, r1.reads)
             ELSE Handled(r2.orders, h, ~r2.ok, r1.reads + r2.reads)

\* handleCheckoutSessionCompleted(session)
handleCheckoutSessionCompleted(ords, session, t, fault) ==
    ReconcilePaid(ords, session, t, fault, "handleCheckoutSessionCompleted")

\* handlePaymentIntentSucceeded(paymentIntent)
handlePaymentIntentSucceeded(ords, paymentIntent, t, fault) ==
    ReconcilePaid(ords, paymentIntent, t, fault, "handlePaymentIntentSucceeded")

\* handlePaymentIntentFailed(paymentIntent)
handlePaymentIntentFailed(ords, paymentIntent, t, fault) ==
    IF ~IsOrderPayment(paymentIntent)
    THEN Handled(ords, "handlePaymentIntentFailed", FALSE, 0)
    ELSE LET r == updatePaymentStatus(ords, paymentIntent.metadata.orderId,
                                      "failed", paymentIntent.metadata.customerId,
                                      "client", t, fault # 1)
         IN  Handled(r.orders, "handlePaymentIntentFailed", ~r.ok, r.reads)

Dispatch_DefaultFallsThrough(ords, ev, t, fault) ==
    IF ev.type = "payment_intent.succeeded"
    THEN handlePaymentIntentSucceeded(ords, ev, t, fault)
    ELSE IF ev.type = "payment_intent.payment_failed"
    THEN handlePaymentIntentFailed(ords, ev, t, fault)
    ELSE handleCheckoutSessionCompleted(ords, ev, t, fault)

\* switch (event.type)
Dispatch(ords, ev, t, fault) ==
    IF ev.type = "checkout.session.completed"
    THEN handleCheckoutSessionCompleted(ords, ev, t, fault)
    ELSE IF ev.type = "payment_intent.succeeded"
    THEN handlePaymentIntentSucceeded(ords, ev, t, fault)
    ELSE IF ev.type = "payment_intent.payment_failed"
    THEN handlePaymentIntentFailed(ords, ev, t, fault)
    ELSE Handled(ords, "none", FALSE, 0)

Answer(code, body, h) ==
    [status |-> code, body |-> body, orders |-> h.orders, handler |-> h.handler,
     raised |-> h.raised, reads |-> h.reads]

stripeWebhookRoute_NoSignatureGate(ords, req, t) ==
    IF ~req.secret
    THEN Answer(500, "Webhook secret not configured", Handled(ords, "none", FALSE, 0))
    ELSE Answer(IF constructWebhookEvent(req).success THEN 200 ELSE 400,
                IF constructWebhookEvent(req).success THEN "received"
                                                      ELSE "Invalid signature",
                Dispatch(ords, req.event, t, req.fault))

\* router.post('/stripe')
stripeWebhookRoute(ords, req, t) ==
    IF ~req.secret
    THEN Answer(500, "Webhook secret not configured", Handled(ords, "none", FALSE, 0))
    ELSE LET result == constructWebhookEvent(req)
         IN  IF ~result.success
             THEN Answer(400, "Invalid signature", Handled(ords, "none", FALSE, 0))
             ELSE Answer(200, "received",
                         Dispatch(ords, result.event, t, req.fault))

\* the requests the endpoint is given: a failing environment or signature
\* with any event, and verified events with any store fault
WebhookRequests ==
    {[secret |-> c[1], stripeKey |-> c[2], sigOk |-> c[3], event |-> e, fault |-> 0] :
        c \in {<<FALSE, TRUE, TRUE>>, <<TRUE, FALSE, TRUE>>, <<TRUE, TRUE, FALSE>>},
        e \in Events}
    \cup
    {[secret |-> TRUE, stripeKey |-> TRUE, sigOk |-> TRUE, event |-> e, fault |-> f] :
        e \in Events, f \in 0..2}

(***************************************************************************)
(* The requests, one at a time: each action is a whole request, from its   *)
(* arrival to the state it leaves; Respond ends it.                        *)
(***************************************************************************)
Idle == [op |-> "idle"]

NoFlight == [d \in 1..MaxDeliveries |-> [pc |-> "idle"]]

NoEvent == [type |-> "none"]

NoOrders == [o \in {} |-> [status |-> "pending"]]

NoPlans == [p \in {} |-> [status |-> "pending"]]

NoUsers == [u \in {} |-> [userType |-> "provider"]]

NoSessions == [c \in {} |-> [payment_status |-> "unpaid"]]

Creators == {"u1"}

OrderInputs ==
    LET base == {[providerId |-> "u2", totalAmount |-> a] : a \in {0, 120}}
        withStatus ==
            base \cup {Spread(b, [status |-> s]) : b \in base, s \in ORDER_STATUS}
    IN  withStatus
            \cup {Spread(b, [paymentStatus |-> p]) :
                    b \in withStatus, p \in PAYMENT_STATUS}

CancellationInputs == {[reason |-> "changed my mind"]}

ReviewInputs == {[rating |-> r] : r \in Ratings}

MessageInputs == {[message |-> "on my way"]}

ServiceAnswer(name, orderId, arg, userId, userType, r) ==
    [op |-> name, orderId |-> orderId, arg |-> arg, userId |-> userId,
     userType |-> userType, ok |-> r.ok, err |-> r.err, reads |-> r.reads,
     before |-> orders]

Sequential == last = Idle /\ now < MaxClock

GatewayUnchanged == UNCHANGED sessions

PlanUnchanged == UNCHANGED <<plans, users, today>> /\ GatewayUnchanged

ConcUnchanged == UNCHANGED <<flight, event, orig, hist, overlapped>> /\ PlanUnchanged

CreateOrder(orderData, customerId) ==
    /\ Sequential
    /\ LET r == createOrder(orders, orderData, customerId, now + 1)
       IN  /\ orders' = r.orders
           /\ last' = ServiceAnswer("createOrder", "", orderData, customerId,
                                    "client", r)
    /\ now' = now + 1
    /\ ConcUnchanged

UpdateOrderStatus(orderId, status, userId, userType) ==
    /\ Sequential
    /\ LET r == updateOrderStatus(orders, orderId, status, userId, userType,
                                  now + 1, TRUE)
       IN  /\ orders' = r.orders
           /\ last' = ServiceAnswer("updateOrderStatus", orderId, status, userId,
                                    userType, r)
    /\ now' = now + 1
    /\ ConcUnchanged

UpdatePaymentStatus(orderId, paymentStatus, userId, userType) ==
    /\ Sequential
    /\ LET r == updatePaymentStatus(orders, orderId, paymentStatus, userId,
                                    userType, now + 1, TRUE)
       IN  /\ orders' = r.orders
           /\ last' = ServiceAnswer("updatePaymentStatus", orderId, paymentStatus,
                                    userId, userType, r)
    /\ now' = now + 1
    /\ ConcUnchanged

CancelOrder(orderId, cancellationData, userId, userType) ==
    /\ Sequential
    /\ LET r == cancelOrder(orders, orderId, cancellationData, userId, userType,
                            now + 1)
       IN  /\ orders' = r.orders
           /\ last' = ServiceAnswer("cancelOrder", orderId, cancellationData,
                                    userId, userType, r)
    /\ now' = now + 1
    /\ ConcUnchanged

AddReview(orderId, reviewData, userId, userType) ==
    /\ Sequential
    /\ LET r == addReview(orders, orderId, reviewData, userId, userType, now + 1)
       IN  /\ orders' = r.orders
           /\ last' = ServiceAnswer("addReview", orderId, reviewData, userId,
                                    userType, r)
    /\ now' = now + 1
    /\ ConcUnchanged

PostReview(orderId, reviewData, user) ==
    /\ Sequential
    /\ LET r == postReviewRoute(orders, orderId, reviewData, user, now + 1)
       IN  /\ orders' = r.orders
           /\ last' = ServiceAnswer("postReviewRoute", orderId, reviewData,
                                    user.uid, user.userType, r)
    /\ now' = now + 1
    /\ ConcUnchanged

AddMessage(orderId, messageData, userId, userType) ==
    /\ Sequential
    /\ LET r == addMessage(orders, orderId, messageData, userId, userType, now + 1)
       IN  /\ orders' = r.orders
           /\ last' = ServiceAnswer("addMessage", orderId, messageData, userId,
                                    userType, r)
    /\ now' = now + 1
    /\ ConcUnchanged

PostPayment(orderId, user, gatewayOk) ==
    /\ Sequential
    /\ LET r == postPaymentRoute(orders, orderId, user, gatewayOk)
       IN  /\ orders' = r.orders
           /\ last' = [op |-> "postPaymentRoute", orderId |-> orderId,
                       userId |-> user.uid, userType |-> user.userType,
                       ok |-> r.ok, err |-> r.err, asked |-> r.asked,
                       before |-> orders]
    /\ now' = now + 1
    /\ ConcUnchanged

StripeWebhook(req) ==
    /\ Sequential
    /\ LET a == stripeWebhookRoute(orders, req, now + 1)
       IN  /\ orders' = a.orders
           /\ last' = [op |-> "webhook", req |-> req, status |-> a.status,
                       body |-> a.body, handler |-> a.handler,
                       raised |-> a.raised, reads |-> a.reads, before |-> orders]
    /\ now' = now + 1
    /\ ConcUnchanged

\* the response is sent and the request is over
Respond ==
    /\ last # Idle
    /\ last' = Idle
    /\ UNCHANGED <<orders, now>>
    /\ ConcUnchanged

Init ==
    /\ orders = NoOrders
    /\ now = 0
    /\ last = Idle
    /\ flight = NoFlight
    /\ event = NoEvent
    /\ orig = NoOrders
    /\ hist = <<>>
    /\ overlapped = FALSE
    /\ plans = NoPlans
    /\ users = NoUsers
    /\ today = 0
    /\ sessions = NoSessions

Next ==
    \/ \E d \in OrderInputs, c \in Creators : CreateOrder(d, c)
    \/ \E o \in RequestIds, s \in StatusInputs, u \in Users, r \in Roles :
           UpdateOrderStatus(o, s, u, r)
    \/ \E o \in RequestIds, p \in PaymentInputs, u \in Users, r \in Roles :
           UpdatePaymentStatus(o, p, u, r)
    \/ \E o \in RequestIds, c \in CancellationInputs, u \in Users, r \in Roles :
           CancelOrder(o, c, u, r)
    \/ \E o \in RequestIds, d \in ReviewInputs, u \in Users, r \in Roles :
           AddReview(o, d, u, r)
    \/ \E o \in RequestIds, d \in ReviewInputs, u \in Users, r \in USER_TYPES :
           PostReview(o, d, [uid |-> u, userType |-> r])
    \/ \E o \in RequestIds, m \in MessageInputs, u \in Users, r \in Roles :
           AddMessage(o, m, u, r)
    \/ \E o \in RequestIds, u \in Users, r \in USER_TYPES, g \in BOOLEAN :
           PostPayment(o, [uid |-> u, userType |-> r], g)
    \/ \E req \in WebhookRequests : StripeWebhook(req)
    \/ Respond

Spec == Init /\ [][Next]_vars

(***************************************************************************)
(* Properties of the requests handled one at a time.                       *)
(***************************************************************************)
Verified(req) == req.secret /\ req.stripeKey /\ req.sigOk

\* the request handled last is a verified event of the types given that
\* carries the order-payment metadata of a stored order and of its customer
OwnOrderEvent(types) ==
    /\ last.op = "webhook"
    /\ Verified(last.req)
    /\ last.req.event.type \in types
    /\ IsOrderPayment(last.req.event)
    /\ last.req.event.metadata.orderId \in DOMAIN last.before
    /\ last.before[last.req.event.metadata.orderId].customerId
           = last.req.event.metadata.customerId

EventOrder == last.req.event.metadata.orderId

\* C1: after a success event with the metadata of createPaymentSession, for
\* an order of that customer that was pending/pending, the stored order has
\* paymentStatus = paid and status = confirmed.
C1_PaidAndConfirmed ==
    (/\ OwnOrderEvent(SuccessTypes)
     /\ last.req.fault = 0
     /\ last.before[EventOrder].status = "pending"
     /\ last.before[EventOrder].paymentStatus = "pending")
        => /\ orders[EventOrder].paymentStatus = "paid"
           /\ orders[EventOrder].status = "confirmed"

C1_Case ==
    /\ OwnOrderEvent(SuccessTypes)
    /\ last.req.fault = 0
    /\ last.before[EventOrder].status = "pending"
    /\ last.before[EventOrder].paymentStatus = "pending"
    /\ orders[EventOrder].paymentStatus = "pending"
    /\ orders[EventOrder].status = "confirmed"

\* C3: a payment_intent.payment_failed event sets paymentStatus to failed and
\* leaves the status of the order what it was, whatever it was.
C3_FailedKeepsStatus ==
    (OwnOrderEvent({"payment_intent.payment_failed"}) /\ last.req.fault = 0)
        => /\ orders[EventOrder].paymentStatus = "failed"
           /\ orders[EventOrder].status = last.before[EventOrder].status

C3_Case ==
    /\ OwnOrderEvent({"payment_intent.payment_failed"})
    /\ last.req.fault = 0
    /\ last.before[EventOrder].status = "confirmed"
    /\ orders[EventOrder].paymentStatus = "failed"
    /\ orders[EventOrder].status = "pending"

\* C5: when the signature check fails the endpoint answers 4xx, no handler
\* runs and no order is read or modified.
C5_BadSignatureRejected ==
    (last.op = "webhook" /\ last.req.secret /\ ~last.req.sigOk)
        => /\ last.status \in 400..499
           /\ last.handler = "none"
           /\ last.reads = 0
           /\ orders = last.before

\* a rejected request whose event, had it been handled, would have paid a
\* stored pending order of its customer
C5_Witness ==
    /\ last.op = "webhook"
    /\ last.req.secret /\ last.req.stripeKey /\ ~last.req.sigOk
    /\ last.req.event.type = "checkout.session.completed"
    /\ IsOrderPayment(last.req.event)
    /\ EventOrder \in DOMAIN orders
    /\ orders[EventOrder].customerId = last.req.event.metadata.customerId
    /\ orders[EventOrder].paymentStatus = "pending"
    /\ last.status = 400

\* C6: a verified event changes an order only if its type is one of the
\* three handled types and its metadata has type order_payment; any other
\* verified event leaves every order unchanged and is answered received.
C6_OnlyOrderPaymentEventsChangeOrders ==
    (last.op = "webhook" /\ Verified(last.req))
        => /\ orders # last.before
               => /\ last.req.event.type \in RecognisedTypes
                  /\ IsOrderPayment(last.req.event)
           /\ (last.req.event.type \notin RecognisedTypes
                   \/ ~IsOrderPayment(last.req.event))
               => /\ orders = last.before
                  /\ last.status = 200
                  /\ last.body = "received"

\* an unhandled event type carrying the metadata of a stored order, and a
\* handled type carrying foreign metadata that names a stored order
C6_Witness ==
    /\ last.op = "webhook"
    /\ Verified(last.req)
    /\ Has(last.req.event, "metadata")
    /\ Has(last.req.event.metadata, "orderId")
    /\ EventOrder \in DOMAIN orders
    /\ \/ last.req.event.type = "customer.created" /\ IsOrderPayment(last.req.event)
       \/ last.req.event.type = "checkout.session.completed"
              /\ last.req.event.metadata.type = "plan_subscription"
    /\ last.status = 200

\* C7: an error raised while a recognised event is processed is reported to
\* the gateway as a processing failure, so that the event is delivered again.
C7_FailureReported ==
    (/\ last.op = "webhook"
     /\ Verified(last.req)
     /\ last.req.event.type \in RecognisedTypes
     /\ last.raised)
        => last.status \notin 200..299

C7_Case ==
    /\ OwnOrderEvent(SuccessTypes)
    /\ last.req.fault = 1
    /\ last.raised
    /\ last.status = 200
    /\ orders = last.before

\* the call handled last is one of the operations named, on a stored order
CallOn(ops) == last.op \in ops /\ last.orderId \in DOMAIN last.before

Target == last.before[last.orderId]

OwningCustomer == last.userType \in CustomerRoles /\ last.userId = Target.customerId

OwningProvider == last.userType = "provider" /\ last.userId = Target.providerId

ForeignCustomer == last.userType \in CustomerRoles /\ last.userId # Target.customerId

ForeignProvider == last.userType = "provider" /\ last.userId # Target.providerId

\* C8: updateOrderStatus and updatePaymentStatus fail Unauthorized and change
\* nothing for a customer or provider who does not own the order, and
\* succeed for the owning customer, the owning provider and an admin.
C8_OwnersOnly ==
    /\ (CallOn({"updateOrderStatus"}) /\ last.arg \in ORDER_STATUS)
        => IF ForeignCustomer \/ ForeignProvider
           THEN ~last.ok /\ last.err = "Unauthorized" /\ orders = last.before
           ELSE last.ok /\ orders[last.orderId].status = last.arg
    /\ (CallOn({"updatePaymentStatus"}) /\ last.arg \in PAYMENT_STATUS)
        => IF ForeignCustomer \/ ForeignProvider
           THEN ~last.ok /\ last.err = "Unauthorized" /\ orders = last.before
           ELSE last.ok /\ orders[last.orderId].paymentStatus = last.arg

\* a foreign client was refused a status update on an order that its owner
\* could have updated
C8_Witness ==
    /\ CallOn({"updateOrderStatus"})
    /\ last.arg = "completed"
    /\ last.userType = "client"
    /\ ForeignCustomer
    /\ last.err = "Unauthorized"
    /\ Target.status = "confirmed"

\* C9: cancelOrder fails CannotCancel and changes nothing on a completed or
\* cancelled order; on any other status, called by the owning customer, the
\* owning provider or an admin, it succeeds, sets status = cancelled and
\* stores a cancellation record with cancelledBy = the caller's role.
C9_CancelGuard ==
    CallOn({"cancelOrder"})
        => IF Target.status \in {"completed", "cancelled"}
           THEN ~last.ok /\ last.err = "CannotCancel" /\ orders = last.before
           ELSE (OwningCustomer \/ OwningProvider \/ last.userType = "admin")
                    => /\ last.ok
                       /\ orders[last.orderId].status = "cancelled"
                       /\ Has(orders[last.orderId], "cancellation")
                       /\ orders[last.orderId].cancellation.cancelledBy
                              = last.userType

\* the owning customer, whose user record has the role client, cancels a
\* pending order of theirs and is refused
C9_Case ==
    /\ CallOn({"cancelOrder"})
    /\ Target.status = "pending"
    /\ last.userType = "client"
    /\ last.userId = Target.customerId
    /\ ~last.ok
    /\ last.err = "ValidationError"
    /\ orders = last.before

\* C10: addReview by the order's own customer fails CannotReview and stores
\* no review unless the order is completed, and on a completed order with no
\* review succeeds and stores the review; by anyone else it fails
\* Unauthorized.
C10_ReviewGuard ==
    (CallOn({"addReview", "postReviewRoute"}) /\ last.arg.rating \in 1..5)
        => IF OwningCustomer
           THEN IF Target.status # "completed"
                THEN ~last.ok /\ last.err = "CannotReview" /\ orders = last.before
                ELSE ~Has(Target, "review")
                        => /\ last.ok
                           /\ Has(orders[last.orderId], "review")
                           /\ orders[last.orderId].review.rating = last.arg.rating
           ELSE ~last.ok /\ last.err \in {"Unauthorized", "Forbidden"}

\* the review endpoint, called by the order's own customer for a completed
\* order that has no review, refuses the review
C10_Case ==
    /\ CallOn({"postReviewRoute"})
    /\ last.arg.rating \in 1..5
    /\ last.userType = "client"
    /\ last.userId = Target.customerId
    /\ Target.status = "completed"
    /\ ~Has(Target, "review")
    /\ last.err = "Unauthorized"
    /\ ~Has(orders[last.orderId], "review")

\* the order named by the call was last written by a successful addReview
JustReviewed ==
    /\ Has(Target, "review")
    /\ Target.review.submittedAt = Target.updatedAt

\* C11: once addReview has succeeded on a completed order, a second addReview
\* by the same customer fails with the already-reviewed condition and the
\* stored review stays the first one.
C11_ReviewedOnce ==
    (/\ CallOn({"addReview"})
     /\ last.arg.rating \in 1..5
     /\ last.userType = "customer"
     /\ last.userId = Target.customerId
     /\ JustReviewed)
        => /\ ~last.ok
           /\ last.err = "AlreadyReviewed"
           /\ orders[last.orderId].review = Target.review

\* the second review right after the first is refused because the order is
\* no longer completed
C11_Case ==
    /\ CallOn({"addReview"})
    /\ last.arg.rating \in 1..5
    /\ last.userType = "customer"
    /\ last.userId = Target.customerId
    /\ JustReviewed
    /\ Target.status = "pending"
    /\ last.err = "CannotReview"
    /\ orders[last.orderId].review = Target.review

\* the orders the call handled last has created
Created == {o \in DOMAIN orders : o \notin DOMAIN last.before}

\* C12: every order that createOrder creates has status = pending and
\* paymentStatus = pending.
C12_CreatedPending ==
    (last.op = "createOrder" /\ last.ok)
        => /\ Created # {}
           /\ \A o \in Created : /\ orders[o].status = "pending"
                                 /\ orders[o].paymentStatus = "pending"

\* an order was created completed and paid because its input said so
C12_Case ==
    /\ last.op = "createOrder"
    /\ last.ok
    /\ Has(last.arg, "status") /\ last.arg.status = "completed"
    /\ Has(last.arg, "paymentStatus") /\ last.arg.paymentStatus = "paid"
    /\ \E o \in Created : /\ orders[o].status = "completed"
                          /\ orders[o].paymentStatus = "paid"

\* the caller of the payment endpoint is the order's customer and the order
\* can be paid
Payable ==
    /\ last.userType = "client"
    /\ last.userId = Target.customerId
    /\ Target.status \in {"pending", "confirmed"}
    /\ Target.paymentStatus # "paid"

\* C13: a checkout session is returned only to the order's customer for an
\* order that is pending or confirmed and not paid; otherwise the call fails
\* without asking the gateway; the stored order is never changed.
C13_PaymentSessionGuard ==
    CallOn({"postPaymentRoute"})
        => /\ orders = last.before
           /\ last.ok => Payable /\ last.asked
           /\ ~Payable
                => /\ ~last.ok
                   /\ ~last.asked
                   /\ last.err \in {"Forbidden", "Unauthorized", "NotPayable",
                                    "AlreadyPaid"}

\* the order's customer asked to pay a confirmed order that is paid already
\* and was refused
C13_Witness ==
    /\ CallOn({"postPaymentRoute"})
    /\ last.userType = "client"
    /\ last.userId = Target.customerId
    /\ Target.status = "confirmed"
    /\ Target.paymentStatus = "paid"
    /\ last.err = "AlreadyPaid"
    /\ ~last.asked

IsPrefix(s, t) == Len(s) <= Len(t) /\ \A i \in 1..Len(s) : s[i] = t[i]

\* C14: addMessage by the order's own customer or provider appends one
\* message with senderId = the caller and isRead = false after the earlier
\* messages; by a customer or provider who does not own the order it fails
\* and the list is unchanged.
C14_MessageAppended ==
    CallOn({"addMessage"})
        => /\ (OwningCustomer \/ OwningProvider)
                => /\ last.ok
                   /\ Len(orders[last.orderId].messages) = Len(Target.messages) + 1
                   /\ IsPrefix(Target.messages, orders[last.orderId].messages)
                   /\ LET m == orders[last.orderId].messages[Len(Target.messages) + 1]
                      IN  m.senderId = last.userId /\ m.isRead = FALSE
           /\ (ForeignCustomer \/ ForeignProvider)
                => /\ ~last.ok
                   /\ orders[last.orderId].messages = Target.messages

\* the order's own customer, whose user record has the role client, sends a
\* message about their order and is refused
C14_Case ==
    /\ CallOn({"addMessage"})
    /\ last.userType = "client"
    /\ last.userId = Target.customerId
    /\ ~last.ok
    /\ last.err = "ValidationError"
    /\ orders = last.before

\* C15: the message list of an order only grows at its end: in every step
\* the list before is a prefix of the list after.
C15_AppendOnly ==
    [][\A o \in DOMAIN orders :
           o \in DOMAIN orders' => IsPrefix(orders[o].messages, orders'[o].messages)]_vars

\* a status update has succeeded on an order that had a message, and the
\* order has none now
C15_Case ==
    /\ CallOn({"updateOrderStatus"})
    /\ last.ok
    /\ Len(Target.messages) = 1
    /\ orders[last.orderId].messages = <<>>

(***************************************************************************)
(* Deliveries of one success event handled concurrently: every await of    *)
(* the handler is a point where another delivery may run.  updateOrder     *)
(* awaits its read of the order, then checks, merges and awaits the write  *)
(* of the merged document.                                                 *)
(***************************************************************************)
Deliveries == 1..MaxDeliveries

InFlight(d) == flight[d].pc \in {"read", "write"}

CallData_StatusFirst(i) ==
    IF i = 1 THEN [status |-> "confirmed"] ELSE [paymentStatus |-> "paid"]

\* the update of the i-th call of a success handler: updatePaymentStatus
\* 'paid', then updateOrderStatus 'confirmed'
CallData(i) ==
    IF i = 1 THEN [paymentStatus |-> "paid"] ELSE [status |-> "confirmed"]

\* the stores an order can be in once created
CreatedStores ==
    {createOrder(NoOrders, d, c, 1).orders :
        d \in {x \in OrderInputs : x.totalAmount > 0}, c \in Creators}

SuccessEvents == {e \in Events : e.type \in SuccessTypes /\ IsOrderPayment(e)}

\* the handler returns: its delivery is over
Finish(d, ords) ==
    /\ flight' = [flight EXCEPT ![d] = [pc |-> "done"]]
    /\ hist' = Append(hist, ords)

\* the endpoint verifies the event and calls its handler
Deliver(d) ==
    /\ flight[d].pc = "idle"
    /\ IsOrderPayment(event)
    /\ flight' = [flight EXCEPT ![d] = [pc |-> "read", call |-> 1]]
    /\ overlapped' = (overlapped \/ \E e \in Deliveries \ {d} : InFlight(e))
    /\ UNCHANGED <<orders, now, last, event, orig, hist>>
    /\ PlanUnchanged

\* updateOrder: await getOrderById
ReadOrder(d) ==
    /\ flight[d].pc = "read"
    /\ LET orderResult == getOrderById(orders, event.metadata.orderId)
       IN  IF orderResult.success
           THEN /\ flight' = [flight EXCEPT
                                 ![d] = [pc |-> "write", call |-> flight[d].call,
                                         existingOrder |-> orderResult.data]]
                /\ hist' = hist
           ELSE Finish(d, orders)
    /\ UNCHANGED <<orders, now, last, event, orig, overlapped>>
    /\ PlanUnchanged

\* updateOrder: the checks, the merge and await update(updatedOrder)
WriteOrder(d) ==
    /\ flight[d].pc = "write"
    /\ LET b == BuildUpdate(flight[d].existingOrder, CallData(flight[d].call),
                            event.metadata.customerId, "client", now + 1)
           written == StoreUpdate(orders, event.metadata.orderId, b.doc)
       IN  IF ~b.ok
           THEN Finish(d, orders) /\ UNCHANGED <<orders, now>>
           ELSE /\ orders' = written
                /\ now' = now + 1
                /\ IF flight[d].call = 2
                   THEN Finish(d, written)
                   ELSE /\ flight' = [flight EXCEPT ![d] = [pc |-> "read", call |-> 2]]
                        /\ hist' = hist
    /\ UNCHANGED <<last, event, orig, overlapped>>
    /\ PlanUnchanged

InitConc ==
    /\ orders \in CreatedStores
    /\ orig = orders
    /\ event \in SuccessEvents
    /\ now = 1
    /\ last = Idle
    /\ flight = NoFlight
    /\ hist = <<>>
    /\ overlapped = FALSE
    /\ plans = NoPlans
    /\ users = NoUsers
    /\ today = 0
    /\ sessions = NoSessions

NextConc == \E d \in Deliveries : Deliver(d) \/ ReadOrder(d) \/ WriteOrder(d)

SpecConc == InitConc /\ [][NextConc]_vars

Quiet == \A d \in Deliveries : ~InFlight(d)

\* the store one delivery handled alone leaves
SingleDelivery == Dispatch(orig, event, 2, 0).orders

\* C4: however many deliveries of one success event are handled, one after
\* another or interleaved, the order ends with the status and paymentStatus
\* that one delivery alone gives it.
C4_SameAsSingleDelivery ==
    (Quiet /\ hist # <<>>)
        => \A o \in DOMAIN orders :
               /\ orders[o].status = SingleDelivery[o].status
               /\ orders[o].paymentStatus = SingleDelivery[o].paymentStatus

\* two deliveries that ran interleaved have both finished, each having
\* written the order twice
C4_Witness ==
    /\ overlapped
    /\ Len(hist) = 2
    /\ now = 5
    /\ hist[1] # hist[2]

\* C2: two deliveries of one checkout.session.completed event, one after the
\* other, leave the order paid and confirmed, and the second changes no
\* field but updatedAt.
C2_Idempotent ==
    (/\ event.type = "checkout.session.completed"
     /\ event.metadata.orderId \in DOMAIN orig
     /\ orig[event.metadata.orderId].customerId = event.metadata.customerId
     /\ ~overlapped
     /\ Len(hist) = 2)
        => LET first == hist[1][event.metadata.orderId]
               second == hist[2][event.metadata.orderId]
           IN  /\ second.paymentStatus = "paid"
               /\ second.status = "confirmed"
               /\ DOMAIN second = DOMAIN first
               /\ \A k \in DOMAIN first \ {"updatedAt"} : second[k] = first[k]

\* the second of two deliveries in a row has ended where the first did, with
\* the order confirmed and its payment pending
C2_Case ==
    /\ event.type = "checkout.session.completed"
    /\ event.metadata.orderId \in DOMAIN orig
    /\ orig[event.metadata.orderId].customerId = event.metadata.customerId
    /\ orig[event.metadata.orderId].paymentStatus = "pending"
    /\ ~overlapped
    /\ Len(hist) = 2
    /\ hist[2][event.metadata.orderId].paymentStatus = "pending"
    /\ hist[2][event.metadata.orderId].status = "confirmed"
    /\ hist[1][event.metadata.orderId].paymentStatus = "pending"

(***************************************************************************)
(* models/ProviderPlan.js                                                  *)
(* Dates are days, prices are cents.                                       *)
(***************************************************************************)
PlanNames == {"free", "basic", "premium", "enterprise"}

PlanTypes == {"monthly", "yearly"}

PlanStatuses == {"active", "expired", "cancelled", "pending"}

Null == "null"

PLAN_CONFIG ==
    [free |->
        [monthly |-> [price |-> 0, days |-> 30],
         yearly |-> [price |-> 0, days |-> 365],
         features |-> [maxListings |-> 5, maxImages |-> 10,
                     prioritySupport |-> FALSE, analytics |-> FALSE,
                     customDomain |-> FALSE, apiAccess |-> FALSE,
                     whiteLabel |-> FALSE]],
     basic |->
        [monthly |-> [price |-> 2999, days |-> 30],
         yearly |-> [price |-> 29999, days |-> 365],
         features |-> [maxListings |-> 25, maxImages |-> 50,
                     prioritySupport |-> TRUE, analytics |-> TRUE,
                     customDomain |-> FALSE, apiAccess |-> FALSE,
                     whiteLabel |-> FALSE]],
     premium |->
        [monthly |-> [price |-> 5999, days |-> 30],
         yearly |-> [price |-> 59999, days |-> 365],
         features |-> [maxListings |-> 100, maxImages |-> 200,
                     prioritySupport |-> TRUE, analytics |-> TRUE,
                     customDomain |-> TRUE, apiAccess |-> TRUE,
                     whiteLabel |-> FALSE]],
     enterprise |->
        [monthly |-> [price |-> 9999, days |-> 30],
         yearly |-> [price |-> 99999, days |-> 365],
         features |-> [maxListings |-> -1, maxImages |-> -1,
                     prioritySupport |-> TRUE, analytics |-> TRUE,
                     customDomain |-> TRUE, apiAccess |-> TRUE,
                     whiteLabel |-> TRUE]]]

Max(a, b) == IF a >= b THEN a ELSE b

\* calculateEndDate(planType, startDate): PLAN_CONFIG is looked up with the
\* plan type as its key
calculateEndDate(planType, startDate) ==
    LET days == IF planType \in DOMAIN PLAN_CONFIG
                THEN PLAN_CONFIG[planType].monthly.days
                ELSE 30
    IN  startDate + days

\* calculateDaysRemaining(endDate), evaluated on day t
calculateDaysRemaining(endDate, t) == Max(0, endDate - t)

\* getPlanPrice(planName, planType)
getPlanPrice(planName, planType) ==
    IF planName \in DOMAIN PLAN_CONFIG /\ planType \in PlanTypes
    THEN PLAN_CONFIG[planName][planType].price
    ELSE 0

\* getPlanFeatures(planName)
getPlanFeatures(planName) ==
    IF planName \in DOMAIN PLAN_CONFIG
    THEN PLAN_CONFIG[planName].features
    ELSE PLAN_CONFIG.free.features

planHierarchy == <<"free", "basic", "premium", "enterprise">>

\* Array.prototype.indexOf, counted from 0; -1 when absent
indexOf(seq, x) ==
    IF \E i \in 1..Len(seq) : seq[i] = x
    THEN (CHOOSE i \in 1..Len(seq) : seq[i] = x) - 1
    ELSE -1

canUpgrade_OrSame(currentPlan, newPlan) ==
    indexOf(planHierarchy, newPlan) >= indexOf(planHierarchy, currentPlan)

\* canUpgrade(currentPlan, newPlan)
canUpgrade(currentPlan, newPlan) ==
    indexOf(planHierarchy, newPlan) > indexOf(planHierarchy, currentPlan)

\* getUpgradePrice(currentPlan, newPlan, planType)
getUpgradePrice(currentPlan, newPlan, planType) ==
    Max(0, getPlanPrice(newPlan, planType) - getPlanPrice(currentPlan, planType))

\* the keys of providerPlanSchema
PlanSchemaKeys ==
    {"providerId", "planName", "planType", "status", "startDate", "endDate",
     "daysRemaining", "price", "currency", "stripeSubscriptionId",
     "stripeCustomerId", "stripePaymentIntentId", "features", "autoRenew",
     "createdAt", "updatedAt"}

\* providerPlanSchema.validate(planData) with the default options: a key
\* the schema does not name is an error
PlanViolations(planData) ==
    (DOMAIN planData \ PlanSchemaKeys)
    \cup ({"providerId", "planName", "planType", "endDate"} \ DOMAIN planData)
    \cup {k \in DOMAIN planData \cap PlanSchemaKeys :
            \/ k = "planName" /\ planData[k] \notin PlanNames
            \/ k = "planType" /\ planData[k] \notin PlanTypes
            \/ k = "status" /\ planData[k] \notin PlanStatuses
            \/ k = "daysRemaining" /\ planData[k] < 0
            \/ k = "price" /\ planData[k] < 0
            \/ k = "features" /\ \/ planData[k].maxListings < 0
                                 \/ planData[k].maxImages < 0}

\* the value validate returns: the defaults of the keys left out
PlanDefaults(t) ==
    [status |-> "pending", startDate |-> t, daysRemaining |-> 0, price |-> 0,
     currency |-> "usd", features |-> PLAN_CONFIG.free.features,
     autoRenew |-> TRUE, createdAt |-> t, updatedAt |-> t]

(***************************************************************************)
(* services/providerPlanService.js                                         *)
(* A call returns its result, the two collections as it leaves them, and   *)
(* is evaluated on day t.                                                  *)
(***************************************************************************)
PlanResult(success, error, pl, us) ==
    [success |-> success, error |-> error, plans |-> pl, users |-> us]

\* createOrUpdateProviderPlan(providerId, planData)
createOrUpdateProviderPlan(pl, providerId, planData, t) ==
    IF PlanViolations(planData) # {}
    THEN [success |-> FALSE, error |-> "ValidationError", plans |-> pl]
    ELSE LET value == Spread(PlanDefaults(t), planData)
         IN  IF providerId \in DOMAIN pl
             THEN [success |-> TRUE, error |-> "",
                   plans |-> [pl EXCEPT ![providerId] =
                                 Spread(@, Spread(value, [updatedAt |-> t]))]]
             ELSE [success |-> TRUE, error |-> "",
                   plans |-> pl @@ (providerId :>
                                 Spread(value, [createdAt |-> t, updatedAt |-> t]))]

\* getProviderPlan(providerId): the read refreshes the stored daysRemaining
getProviderPlan(pl, providerId, t) ==
    IF providerId \notin DOMAIN pl
    THEN [success |-> FALSE, error |-> "Plan not found", plans |-> pl]
    ELSE LET planData == pl[providerId]
             daysRemaining == calculateDaysRemaining(planData.endDate, t)
         IN  IF daysRemaining # planData.daysRemaining
             THEN [success |-> TRUE,
                   plan |-> [planData EXCEPT !.daysRemaining = daysRemaining],
                   plans |-> [pl EXCEPT ![providerId] =
                                 Spread(@, [daysRemaining |-> daysRemaining,
                                            updatedAt |-> t])]]
             ELSE [success |-> TRUE, plan |-> planData, plans |-> pl]

\* users.doc(providerId).update({'providerInfo.plan': summary, planType,
\* planName, updatedAt}) on a user record that exists
WriteSummary(us, providerId, summary, t) ==
    LET user == us[providerId]
        providerInfo == IF Has(user, "providerInfo") THEN user.providerInfo
                        ELSE <<>>
    IN  [us EXCEPT ![providerId] =
            Spread(user, [providerInfo |-> Spread(providerInfo, [plan |-> summary]),
                          planType |-> summary.type,
                          planName |-> summary.name,
                          updatedAt |-> t])]

\* the end of activateProviderPlan, upgradeProviderPlan and renewPlan: the
\* plan is written, then the summary; an update of a user record that does
\* not exist throws and the catch reports it, the plan staying written
WritePlanAndSummary(pl, us, providerId, planData, t) ==
    LET result == createOrUpdateProviderPlan(pl, providerId, planData, t)
        summary == [name |-> planData.planName, type |-> planData.planType,
                    status |-> "active", endDate |-> planData.endDate,
                    daysRemaining |-> planData.daysRemaining]
    IN  IF ~result.success THEN PlanResult(FALSE, result.error, pl, us)
        ELSE IF providerId \notin DOMAIN us
        THEN PlanResult(FALSE, "StoreError", result.plans, us)
        ELSE PlanResult(TRUE, "", result.plans,
                        WriteSummary(us, providerId, summary, t))

OrNull(d, k) == IF Has(d, k) THEN d[k] ELSE Null

\* activateProviderPlan(providerId, planName, planType, paymentData)
activateProviderPlan(pl, us, providerId, planName, planType, paymentData, t) ==
    LET endDate == calculateEndDate(planType, t)
        planData ==
            [providerId |-> providerId,
             planName |-> planName,
             planType |-> planType,
             status |-> "active",
             startDate |-> t,
             endDate |-> endDate,
             daysRemaining |-> calculateDaysRemaining(endDate, t),
             price |-> getPlanPrice(planName, planType),
             currency |-> "usd",
             features |-> getPlanFeatures(planName),
             autoRenew |-> (planType = "monthly"),
             stripeSubscriptionId |-> OrNull(paymentData, "stripeSubscriptionId"),
             stripeCustomerId |-> OrNull(paymentData, "stripeCustomerId"),
             stripePaymentIntentId |-> OrNull(paymentData, "stripePaymentIntentId")]
    IN  WritePlanAndSummary(pl, us, providerId, planData, t)

\* the period upgradeProviderPlan adds to the remaining days
Period(planType) == IF planType = "monthly" THEN 30 ELSE 365

\* upgradeProviderPlan(providerId, newPlanName, newPlanType)
upgradeProviderPlan(pl, us, providerId, newPlanName, newPlanType, t) ==
    LET currentPlan == getProviderPlan(pl, providerId, t)
    IN  IF ~currentPlan.success
        THEN PlanResult(FALSE, "PlanNotFound", currentPlan.plans, us)
        ELSE LET currentPlanData == currentPlan.plan
                 remainingDays == currentPlanData.daysRemaining
                 newPlanData ==
                     [providerId |-> providerId,
                      planName |-> newPlanName,
                      planType |-> newPlanType,
                      status |-> "active",
                      startDate |-> t,
                      endDate |-> t + remainingDays + Period(newPlanType),
                      daysRemaining |-> remainingDays + Period(newPlanType),
                      price |-> getPlanPrice(newPlanName, newPlanType),
                      currency |-> "usd",
                      features |-> getPlanFeatures(newPlanName),
                      autoRenew |-> (newPlanType = "monthly"),
                      upgradePrice |-> getUpgradePrice(currentPlanData.planName,
                                                       newPlanName, newPlanType),
                      previousPlan |-> currentPlanData.planName]
             IN  IF ~canUpgrade(currentPlanData.planName, newPlanName)
                 THEN PlanResult(FALSE, "CannotDowngrade", currentPlan.plans, us)
                 ELSE WritePlanAndSummary(currentPlan.plans, us, providerId,
                                          newPlanData, t)

\* renewPlan(providerId, planName, planType)
renewPlan(pl, us, providerId, planName, planType, t) ==
    LET endDate == calculateEndDate(planType, t)
        planData ==
            [providerId |-> providerId,
             planName |-> planName,
             planType |-> planType,
             status |-> "active",
             startDate |-> t,
             endDate |-> endDate,
             daysRemaining |-> calculateDaysRemaining(endDate, t),
             price |-> getPlanPrice(planName, planType),
             currency |-> "usd",
             features |-> getPlanFeatures(planName),
             autoRenew |-> (planType = "monthly"),
             renewedAt |-> t]
    IN  WritePlanAndSummary(pl, us, providerId, planData, t)

\* users.doc(providerId).update({'providerInfo.plan.status': status,
\* updatedAt}) on a user record that exists: the path is created where the
\* record has none
SetSummaryStatus(us, providerId, status, t) ==
    LET user == us[providerId]
        providerInfo == IF Has(user, "providerInfo") THEN user.providerInfo
                        ELSE <<>>
        plan == IF Has(providerInfo, "plan") THEN providerInfo.plan ELSE <<>>
    IN  [us EXCEPT ![providerId] =
            Spread(user,
                   [providerInfo |->
                        Spread(providerInfo,
                               [plan |-> Spread(plan, [status |-> status])]),
                    updatedAt |-> t])]

\* planRef.update(fields), then the status of the summary; either update
\* throws when its document does not exist and the catch reports it
SetStatus(pl, us, providerId, fields, t) ==
    IF providerId \notin DOMAIN pl THEN PlanResult(FALSE, "StoreError", pl, us)
    ELSE LET written == [pl EXCEPT ![providerId] =
                            Spread(@, Spread(fields, [updatedAt |-> t]))]
         IN  IF providerId \notin DOMAIN us
             THEN PlanResult(FALSE, "StoreError", written, us)
             ELSE PlanResult(TRUE, "", written,
                             SetSummaryStatus(us, providerId, fields.status, t))

cancelProviderPlan_KeepsAutoRenew(pl, us, providerId, t) ==
    SetStatus(pl, us, providerId, [status |-> "cancelled"], t)

\* cancelProviderPlan(providerId)
cancelProviderPlan(pl, us, providerId, t) ==
    SetStatus(pl, us, providerId, [status |-> "cancelled", autoRenew |-> FALSE], t)

checkAndUpdatePlanExpiration_Negative(pl, us, providerId, t) ==
    LET planResult == getProviderPlan(pl, providerId, t)
    IN  IF ~planResult.success
        THEN [success |-> FALSE, error |-> "Plan not found", expired |-> FALSE,
              plans |-> planResult.plans, users |-> us]
        ELSE [success |-> TRUE, error |-> "", expired |-> FALSE,
              plans |-> planResult.plans, users |-> us]

\* checkAndUpdatePlanExpiration(providerId)
checkAndUpdatePlanExpiration(pl, us, providerId, t) ==
    LET planResult == getProviderPlan(pl, providerId, t)
    IN  IF ~planResult.success
        THEN [success |-> FALSE, error |-> "Plan not found", expired |-> FALSE,
              plans |-> planResult.plans, users |-> us]
        ELSE IF planResult.plan.daysRemaining <= 0
                /\ planResult.plan.status = "active"
        THEN LET r == SetStatus(planResult.plans, us, providerId,
                                [status |-> "expired"], t)
             IN  [success |-> r.success, error |-> r.error, expired |-> r.success,
                  plans |-> r.plans, users |-> r.users]
        ELSE [success |-> TRUE, error |-> "", expired |-> FALSE,
              plans |-> planResult.plans, users |-> us]

(***************************************************************************)
(* The plan engine, one call at a time, and the days passing between the   *)
(* calls.                                                                  *)
(***************************************************************************)
\* the providers the calls name; the first has a user record
PlanProviders == {"u2", "u4"}

RegisteredUsers == ("u2" :> [userType |-> "provider"])

NoPaymentData == [k \in {} |-> Null]

PaymentData ==
    {NoPaymentData, [stripePaymentIntentId |-> "pi_1", stripeCustomerId |-> "cus_1"]}

DayJumps == {1, 30}

PlanSequential == last = Idle /\ now < MaxPlanClock

OrderUnchanged == UNCHANGED <<orders, flight, event, orig, hist, overlapped>>

PlanAnswer(name, providerId, planName, planType, r) ==
    [op |-> name, providerId |-> providerId, planName |-> planName,
     planType |-> planType, success |-> r.success, error |-> r.error,
     plansBefore |-> plans, usersBefore |-> users]

ActivateProviderPlan(providerId, planName, planType, paymentData) ==
    /\ PlanSequential
    /\ LET r == activateProviderPlan(plans, users, providerId, planName, planType,
                                     paymentData, today)
       IN  /\ plans' = r.plans
           /\ users' = r.users
           /\ last' = PlanAnswer("activateProviderPlan", providerId, planName,
                                 planType, r)
    /\ now' = now + 1
    /\ UNCHANGED today
    /\ OrderUnchanged
    /\ GatewayUnchanged

UpgradeProviderPlan(providerId, newPlanName, newPlanType) ==
    /\ PlanSequential
    /\ LET r == upgradeProviderPlan(plans, users, providerId, newPlanName,
                                    newPlanType, today)
       IN  /\ plans' = r.plans
           /\ users' = r.users
           /\ last' = PlanAnswer("upgradeProviderPlan", providerId, newPlanName,
                                 newPlanType, r)
    /\ now' = now + 1
    /\ UNCHANGED today
    /\ OrderUnchanged
    /\ GatewayUnchanged

RenewPlan(providerId, planName, planType) ==
    /\ PlanSequential
    /\ LET r == renewPlan(plans, users, providerId, planName, planType, today)
       IN  /\ plans' = r.plans
           /\ users' = r.users
           /\ last' = PlanAnswer("renewPlan", providerId, planName, planType, r)
    /\ now' = now + 1
    /\ UNCHANGED today
    /\ OrderUnchanged
    /\ GatewayUnchanged

GetProviderPlan(providerId) ==
    /\ PlanSequential
    /\ LET r == getProviderPlan(plans, providerId, today)
       IN  /\ plans' = r.plans
           /\ last' = [op |-> "getProviderPlan", providerId |-> providerId,
                       success |-> r.success, plansBefore |-> plans,
                       usersBefore |-> users]
    /\ now' = now + 1
    /\ UNCHANGED <<users, today>>
    /\ OrderUnchanged
    /\ GatewayUnchanged

CancelProviderPlan(providerId) ==
    /\ PlanSequential
    /\ LET r == cancelProviderPlan(plans, users, providerId, today)
       IN  /\ plans' = r.plans
           /\ users' = r.users
           /\ last' = [op |-> "cancelProviderPlan", providerId |-> providerId,
                       success |-> r.success, error |-> r.error,
                       plansBefore |-> plans, usersBefore |-> users]
    /\ now' = now + 1
    /\ UNCHANGED today
    /\ OrderUnchanged
    /\ GatewayUnchanged

CheckAndUpdatePlanExpiration(providerId) ==
    /\ PlanSequential
    /\ LET r == checkAndUpdatePlanExpiration(plans, users, providerId, today)
       IN  /\ plans' = r.plans
           /\ users' = r.users
           /\ last' = [op |-> "checkAndUpdatePlanExpiration",
                       providerId |-> providerId, success |-> r.success,
                       error |-> r.error, expired |-> r.expired,
                       plansBefore |-> plans, usersBefore |-> users]
    /\ now' = now + 1
    /\ UNCHANGED today
    /\ OrderUnchanged
    /\ GatewayUnchanged

\* n days pass
DayPasses(n) ==
    /\ PlanSequential
    /\ today' = today + n
    /\ now' = now + 1
    /\ UNCHANGED <<plans, users, last>>
    /\ OrderUnchanged
    /\ GatewayUnchanged

InitPlan ==
    /\ orders = NoOrders
    /\ now = 0
    /\ last = Idle
    /\ flight = NoFlight
    /\ event = NoEvent
    /\ orig = NoOrders
    /\ hist = <<>>
    /\ overlapped = FALSE
    /\ plans = NoPlans
    /\ users = RegisteredUsers
    /\ today = 0
    /\ sessions = NoSessions

NextPlan ==
    \/ \E p \in PlanProviders, n \in PlanNames, ty \in PlanTypes, d \in PaymentData :
           ActivateProviderPlan(p, n, ty, d)
    \/ \E p \in PlanProviders, n \in PlanNames, ty \in PlanTypes :
           UpgradeProviderPlan(p, n, ty)
    \/ \E p \in PlanProviders, n \in PlanNames, ty \in PlanTypes :
           RenewPlan(p, n, ty)
    \/ \E p \in PlanProviders : GetProviderPlan(p)
    \/ \E p \in PlanProviders : CancelProviderPlan(p)
    \/ \E p \in PlanProviders : CheckAndUpdatePlanExpiration(p)
    \/ \E n \in DayJumps : DayPasses(n)
    \/ Respond

SpecPlan == InitPlan /\ [][NextPlan]_vars

(***************************************************************************)
(* Properties of the plan engine.                                          *)
(***************************************************************************)
PlanCall(name) == last.op = name

\* the plan document and the user record of the provider the call names
PlanNow == plans[last.providerId]

PlanBefore == last.plansBefore[last.providerId]

SummaryNow == users[last.providerId].providerInfo.plan

HadPlan == last.providerId \in DOMAIN last.plansBefore

HasUserRecord == last.providerId \in DOMAIN last.usersBefore

\* the days of a plan type in the catalog
CatalogDays(planType) == PLAN_CONFIG.free[planType].days

\* C16: activateProviderPlan sets endDate to 30 days after now for planType
\* monthly and to 365 days after now for planType yearly, for every plan name.
C16_EndDateFromPlanType ==
    (PlanCall("activateProviderPlan") /\ last.success)
        => PlanNow.endDate = today + CatalogDays(last.planType)

\* a yearly plan was activated and ends 30 days after its start
C16_Case ==
    /\ PlanCall("activateProviderPlan")
    /\ last.success
    /\ last.planType = "yearly"
    /\ last.planName = "premium"
    /\ PlanNow.endDate = today + 30
    /\ PlanNow.daysRemaining = 30

\* C17: for every plan of the catalog and every plan type, activation
\* succeeds and leaves an active plan document with the price and the
\* feature bundle of the catalog, and the same name, type, status, endDate
\* and daysRemaining in the summary of the provider's user record.
C17_ActivatedFromCatalog ==
    (PlanCall("activateProviderPlan") /\ HasUserRecord)
        => /\ last.success
           /\ PlanNow.planName = last.planName
           /\ PlanNow.planType = last.planType
           /\ PlanNow.status = "active"
           /\ PlanNow.price = PLAN_CONFIG[last.planName][last.planType].price
           /\ PlanNow.features = PLAN_CONFIG[last.planName].features
           /\ SummaryNow = [name |-> PlanNow.planName, type |-> PlanNow.planType,
                            status |-> PlanNow.status, endDate |-> PlanNow.endDate,
                            daysRemaining |-> PlanNow.daysRemaining]

\* the activation of the enterprise plan was refused and nothing was written
C17_Case ==
    /\ PlanCall("activateProviderPlan")
    /\ HasUserRecord
    /\ last.planName = "enterprise"
    /\ ~last.success
    /\ last.error = "ValidationError"
    /\ plans = last.plansBefore
    /\ users = last.usersBefore

Rank == [free |-> 0, basic |-> 1, premium |-> 2, enterprise |-> 3]

StrictlyHigher == Rank[last.planName] > Rank[PlanBefore.planName]

\* the call refused the upgrade for the reason the claim names
UpgradeRefused ==
    /\ ~HadPlan => ~last.success /\ last.error = "PlanNotFound"
    /\ (HadPlan /\ ~StrictlyHigher)
           => ~last.success /\ last.error = "CannotDowngrade"

C19_UpgradeAddsPeriod ==
    (PlanCall("upgradeProviderPlan") /\ HadPlan /\ HasUserRecord /\ StrictlyHigher)
        => LET previous == Max(0, PlanBefore.endDate - today)
           IN  /\ last.success
               /\ PlanNow.planName = last.planName
               /\ PlanNow.status = "active"
               /\ PlanNow.daysRemaining = previous + CatalogDays(last.planType)
               /\ PlanNow.daysRemaining > previous

\* the upgrade from basic to premium was refused and the plan is still basic
C19_Case ==
    /\ PlanCall("upgradeProviderPlan")
    /\ HadPlan /\ HasUserRecord
    /\ PlanBefore.planName = "basic"
    /\ PlanBefore.status = "active"
    /\ last.planName = "premium"
    /\ ~last.success
    /\ last.error = "ValidationError"
    /\ PlanNow.planName = "basic"

\* C20: renewPlan succeeds and leaves the plan active with endDate and
\* daysRemaining computed from the present day and the period of planType,
\* whatever remained before.
C20_RenewFromNow ==
    (PlanCall("renewPlan") /\ HadPlan /\ HasUserRecord)
        => /\ last.success
           /\ PlanNow.status = "active"
           /\ PlanNow.endDate = today + CatalogDays(last.planType)
           /\ PlanNow.daysRemaining = CatalogDays(last.planType)

\* the renewal of an active monthly basic plan was refused and the plan
\* ends when it did
C20_Case ==
    /\ PlanCall("renewPlan")
    /\ HadPlan /\ HasUserRecord
    /\ PlanBefore.planName = "basic"
    /\ PlanBefore.status = "active"
    /\ last.planName = "basic"
    /\ last.planType = "monthly"
    /\ today > PlanBefore.startDate
    /\ ~last.success
    /\ last.error = "ValidationError"
    /\ plans = last.plansBefore

\* C21: cancelProviderPlan on an existing plan sets status cancelled and
\* autoRenew false in the plan document and leaves endDate, planName,
\* planType and the features as they were; where the provider has a user
\* record the call succeeds and the summary's status is cancelled.
C21_CancelKeepsAccess ==
    (PlanCall("cancelProviderPlan") /\ HadPlan)
        => /\ PlanNow.status = "cancelled"
           /\ PlanNow.autoRenew = FALSE
           /\ PlanNow.endDate = PlanBefore.endDate
           /\ PlanNow.planName = PlanBefore.planName
           /\ PlanNow.planType = PlanBefore.planType
           /\ PlanNow.features = PlanBefore.features
           /\ HasUserRecord => /\ last.success
                               /\ SummaryNow.status = "cancelled"

\* an active, renewing premium plan with days left was cancelled
C21_Case ==
    /\ PlanCall("cancelProviderPlan")
    /\ HadPlan /\ HasUserRecord
    /\ PlanBefore.status = "active"
    /\ PlanBefore.autoRenew
    /\ PlanBefore.planName = "premium"
    /\ PlanBefore.endDate > today
    /\ last.success
    /\ PlanNow.status = "cancelled"
    /\ PlanNow.endDate = PlanBefore.endDate
    /\ SummaryNow.status = "cancelled"

\* the plan was active and its endDate has passed when the call was made
WasDue == PlanBefore.status = "active" /\ today >= PlanBefore.endDate

LaterOperations ==
    {"cancelProviderPlan", "upgradeProviderPlan", "renewPlan",
     "checkAndUpdatePlanExpiration"}

\* C23: once a plan's status is expired or cancelled, none of
\* cancelProviderPlan, upgradeProviderPlan, renewPlan and
\* checkAndUpdatePlanExpiration changes that status.
C23_Terminal ==
    (last.op \in LaterOperations /\ HadPlan
     /\ PlanBefore.status \in {"expired", "cancelled"})
        => PlanNow.status = PlanBefore.status

\* an expired plan was cancelled and its status is cancelled
C23_Case ==
    /\ PlanCall("cancelProviderPlan")
    /\ HadPlan /\ HasUserRecord
    /\ PlanBefore.status = "expired"
    /\ last.success
    /\ PlanNow.status = "cancelled"
    /\ SummaryNow.status = "cancelled"

\* the operations of the plan engine
PlanOperations == LaterOperations \cup {"activateProviderPlan", "getProviderPlan"}

\* C24: after a plan operation returns, the summary on the provider's user
\* record has the name, type, status, endDate and daysRemaining of the plan
\* document.
C24_SummaryInSync ==
    (/\ last.op \in PlanOperations
     /\ last.providerId \in DOMAIN plans
     /\ last.providerId \in DOMAIN users)
        => /\ Has(users[last.providerId], "providerInfo")
           /\ Has(users[last.providerId].providerInfo, "plan")
           /\ SummaryNow.name = PlanNow.planName
           /\ SummaryNow.type = PlanNow.planType
           /\ SummaryNow.status = PlanNow.status
           /\ SummaryNow.endDate = PlanNow.endDate
           /\ SummaryNow.daysRemaining = PlanNow.daysRemaining

\* getProviderPlan refreshed the plan's daysRemaining and the summary has the
\* number of the day of the activation
C24_Case ==
    /\ PlanCall("getProviderPlan")
    /\ HadPlan /\ HasUserRecord
    /\ last.success
    /\ PlanNow.daysRemaining < PlanBefore.daysRemaining
    /\ SummaryNow.daysRemaining = PlanBefore.daysRemaining
    /\ users = last.usersBefore

(***************************************************************************)
(* routes/stripe.js: the plan routes and the gateway.                      *)
(* The gateway keeps the checkout sessions; a session is paid when the     *)
(* customer pays it at the gateway, and only the gateway signs events.     *)
(***************************************************************************)
SessionIds == {"cs_1", "cs_2"}

MissingSession == "cs_9"

PaidPlans == {"basic", "premium", "enterprise"}

\* the users that hold a token: verifyToken answers 401 for any other
TokenUsers == {"u2", "u5"}

PayingUsers == [u \in TokenUsers |-> [userType |-> "provider"]]

\* the ids the gateway gives out
CustomerOf(userId) == IF userId = "u2" THEN "cus_u2" ELSE "cus_u5"

IntentOf(sessionId) ==
    CASE sessionId = "cs_1" -> "pi_1" [] sessionId = "cs_2" -> "pi_2" [] OTHER -> "pi_9"

SubscriptionOf(sessionId) ==
    CASE sessionId = "cs_1" -> "sub_1" [] sessionId = "cs_2" -> "sub_2" [] OTHER -> "sub_9"

GatewayFailure == [success |-> FALSE, error |-> "GatewayError"]

\* stripeService.retrieveSession(sessionId)
retrieveSession(ss, sessionId, gatewayOk) ==
    IF gatewayOk /\ sessionId \in DOMAIN ss
    THEN [success |-> TRUE, session |-> ss[sessionId]]
    ELSE GatewayFailure

\* stripeService.retrievePaymentIntent(paymentIntentId)
retrievePaymentIntent(ss, paymentIntentId, gatewayOk) ==
    IF gatewayOk /\ \E c \in DOMAIN ss : ss[c].payment_intent = paymentIntentId
    THEN LET c == CHOOSE c \in DOMAIN ss : ss[c].payment_intent = paymentIntentId
         IN  [success |-> TRUE,
              paymentIntent |-> [id |-> paymentIntentId,
                                 customer |-> ss[c].customer]]
    ELSE GatewayFailure

\* stripeService.createCheckoutSession(customerId, planName, planType, ...,
\* metadata): the session the gateway creates under the id it picks
createCheckoutSession(ss, sessionId, customerId, planName, planType, metadata, gatewayOk) ==
    IF ~gatewayOk THEN GatewayFailure
    ELSE IF getPlanPrice(planName, planType) = 0
    THEN [success |-> FALSE, error |-> "Free plans do not require payment"]
    ELSE [success |-> TRUE,
          session |-> [id |-> sessionId,
                       customer |-> customerId,
                       metadata |-> Spread([planName |-> planName,
                                            planType |-> planType], metadata),
                       payment_status |-> "unpaid",
                       payment_intent |-> Null,
                       subscription |-> Null]]

RouteAnswer(status, pl, us, ss) ==
    [status |-> status, plans |-> pl, users |-> us, sessions |-> ss]

\* router.post('/create-checkout'): the caller holds a token
createCheckoutRoute(pl, us, ss, userId, body, sessionId, gatewayOk, t) ==
    LET hasCustomer == Has(us[userId], "stripeCustomerId")
        customerId == IF hasCustomer THEN us[userId].stripeCustomerId
                      ELSE CustomerOf(userId)
        us1 == IF hasCustomer THEN us
               ELSE [us EXCEPT ![userId] =
                        Spread(@, [stripeCustomerId |-> customerId,
                                   updatedAt |-> t])]
    IN  IF ~hasCustomer /\ ~gatewayOk THEN RouteAnswer(400, pl, us, ss)
        ELSE IF body.planName = "free"
        THEN LET planResult == activateProviderPlan(pl, us1, userId, body.planName,
                                                    body.planType, NoPaymentData, t)
             IN  RouteAnswer(IF planResult.success THEN 200 ELSE 400,
                             planResult.plans, planResult.users, ss)
        ELSE LET sessionResult ==
                     createCheckoutSession(ss, sessionId, customerId, body.planName,
                                           body.planType,
                                           [userId |-> userId,
                                            userType |-> us[userId].userType],
                                           gatewayOk)
             IN  IF sessionResult.success
                 THEN RouteAnswer(200, pl, us1,
                                  ss @@ (sessionId :> sessionResult.session))
                 ELSE RouteAnswer(400, pl, us1, ss)

\* router.post('/payment-success'): the body names a session or a payment
\* intent; gatewayOk and again are the gateway's answers to the first and to
\* the second retrieval
paymentSuccessRoute(pl, us, ss, userId, body, gatewayOk, again, t) ==
    LET bySession == Has(body, "stripeSessionId")
        session == IF bySession
                   THEN retrieveSession(ss, body.stripeSessionId, gatewayOk)
                   ELSE GatewayFailure
        paymentIntent == IF ~bySession /\ Has(body, "paymentIntentId")
                         THEN retrievePaymentIntent(ss, body.paymentIntentId, gatewayOk)
                         ELSE GatewayFailure
        paymentData ==
            IF bySession /\ session.success
            THEN [stripePaymentIntentId |-> session.session.payment_intent,
                  stripeCustomerId |-> session.session.customer,
                  stripeSubscriptionId |-> session.session.subscription]
            ELSE IF paymentIntent.success
            THEN [stripePaymentIntentId |-> body.paymentIntentId,
                  stripeCustomerId |-> paymentIntent.paymentIntent.customer]
            ELSE NoPaymentData
        second == IF bySession
                  THEN retrieveSession(ss, body.stripeSessionId, again)
                  ELSE GatewayFailure
        planName == IF second.success THEN second.session.metadata.planName
                    ELSE "basic"
        planType == IF second.success THEN second.session.metadata.planType
                    ELSE "monthly"
    IN  IF bySession /\ ~session.success THEN RouteAnswer(400, pl, us, ss)
        ELSE LET planResult == activateProviderPlan(pl, us, userId, planName,
                                                    planType, paymentData, t)
             IN  RouteAnswer(IF planResult.success THEN 200 ELSE 400,
                             planResult.plans, planResult.users, ss)

\* router.get('/current-plan')
currentPlanRoute(pl, us, ss, userId, t) ==
    LET planResult == getProviderPlan(pl, userId, t)
    IN  RouteAnswer(IF planResult.success THEN 200 ELSE 404,
                    planResult.plans, us, ss)

\* router.post('/upgrade-plan')
upgradePlanRoute(pl, us, ss, userId, body, t) ==
    LET upgradeResult == upgradeProviderPlan(pl, us, userId, body.newPlanName,
                                             body.newPlanType, t)
    IN  RouteAnswer(IF upgradeResult.success THEN 200 ELSE 400,
                    upgradeResult.plans, upgradeResult.users, ss)

\* router.post('/cancel-plan')
cancelPlanRoute(pl, us, ss, userId, t) ==
    LET cancelResult == cancelProviderPlan(pl, us, userId, t)
    IN  RouteAnswer(IF cancelResult.success THEN 200 ELSE 400,
                    cancelResult.plans, cancelResult.users, ss)

\* const { userId, planName, planType } = metadata; userId && planName &&
\* planType
NamesPlan(obj) ==
    /\ Has(obj, "metadata")
    /\ {"userId", "planName", "planType"} \subseteq DOMAIN obj.metadata

\* handleCheckoutSessionCompleted(session) and
\* handlePaymentIntentSucceeded(paymentIntent) of routes/stripe.js: the
\* result of the activation is not read
handlePlanPaid(pl, us, obj, paymentData, t) ==
    IF ~NamesPlan(obj) THEN PlanResult(TRUE, "", pl, us)
    ELSE activateProviderPlan(pl, us, obj.metadata.userId, obj.metadata.planName,
                              obj.metadata.planType, paymentData, t)

\* handleInvoicePaymentSucceeded(invoice): the subscription the gateway
\* returns is the one the request carries
handleInvoicePaymentSucceeded(pl, us, invoice, t) ==
    IF ~Has(invoice, "subscription") \/ ~NamesPlan(invoice.subscription)
    THEN PlanResult(TRUE, "", pl, us)
    ELSE renewPlan(pl, us, invoice.subscription.metadata.userId,
                   invoice.subscription.metadata.planName,
                   invoice.subscription.metadata.planType, t)

\* handleSubscriptionUpdated(subscription)
handleSubscriptionUpdated(pl, us, subscription, t) ==
    IF ~Has(subscription, "metadata") \/ ~Has(subscription.metadata, "userId")
       \/ subscription.metadata.userId \notin DOMAIN us
    THEN PlanResult(TRUE, "", pl, us)
    ELSE LET userId == subscription.metadata.userId
             providerInfo == IF Has(us[userId], "providerInfo")
                             THEN us[userId].providerInfo ELSE <<>>
         IN  PlanResult(TRUE, "", pl,
                 [us EXCEPT ![userId] =
                     Spread(@, [providerInfo |->
                                    Spread(providerInfo,
                                           [subscriptionStatus |-> subscription.status]),
                                updatedAt |-> t])])

\* handleSubscriptionDeleted(subscription)
handleSubscriptionDeleted(pl, us, subscription, t) ==
    IF ~Has(subscription, "metadata") \/ ~Has(subscription.metadata, "userId")
    THEN PlanResult(TRUE, "", pl, us)
    ELSE cancelProviderPlan(pl, us, subscription.metadata.userId, t)

\* router.post('/webhook') of routes/stripe.js
planWebhookRoute(pl, us, ss, req, t) ==
    LET eventResult == constructWebhookEvent(req)
    IN  IF ~eventResult.success THEN RouteAnswer(400, pl, us, ss)
        ELSE LET ev == eventResult.event
                 obj == ev.data.object
                 r == CASE ev.type = "checkout.session.completed" ->
                              handlePlanPaid(pl, us, obj,
                                  [stripeSessionId |-> obj.id,
                                   stripePaymentIntentId |-> obj.payment_intent,
                                   stripeCustomerId |-> obj.customer], t)
                        [] ev.type = "payment_intent.succeeded" ->
                              handlePlanPaid(pl, us, obj,
                                  [stripePaymentIntentId |-> obj.id,
                                   stripeCustomerId |-> obj.customer], t)
                        [] ev.type = "invoice.payment_succeeded" ->
                              handleInvoicePaymentSucceeded(pl, us, obj, t)
                        [] ev.type = "customer.subscription.updated" ->
                              handleSubscriptionUpdated(pl, us, obj, t)
                        [] ev.type = "customer.subscription.deleted" ->
                              handleSubscriptionDeleted(pl, us, obj, t)
                        [] OTHER -> PlanResult(TRUE, "", pl, us)
             IN  RouteAnswer(200, r.plans, r.users, ss)

(***************************************************************************)
(* The plan routes, one request at a time, and the gateway.                *)
(***************************************************************************)
CheckoutBodies == [planName : PlanNames, planType : PlanTypes]

PaymentSuccessBodies ==
    {[stripeSessionId |-> c] : c \in SessionIds \cup {MissingSession}}
    \cup {[paymentIntentId |-> IntentOf(c)] : c \in {"cs_1", MissingSession}}
    \cup {[stripeSessionId |-> "cs_1", paymentIntentId |-> IntentOf(MissingSession)]}

UpgradeBodies == [newPlanName : PlanNames, newPlanType : PlanTypes]

Paid(ss) == {c \in DOMAIN ss : ss[c].payment_status = "paid"}

GatewayEventTypes ==
    {"checkout.session.completed", "payment_intent.succeeded",
     "invoice.payment_succeeded", "customer.subscription.updated",
     "customer.subscription.deleted", "charge.refunded"}

\* the event of a type the gateway signs about a session that was paid; the
\* objects it derives from the session carry the session's metadata or none
GatewayEvent(session, type, carried) ==
    LET metadata == IF carried THEN session.metadata ELSE <<>>
        subscription == [id |-> session.subscription, status |-> "past_due",
                         metadata |-> metadata]
        object ==
            CASE type = "checkout.session.completed" -> session
              [] type = "payment_intent.succeeded" ->
                     [id |-> session.payment_intent, customer |-> session.customer,
                      metadata |-> metadata]
              [] type = "invoice.payment_succeeded" -> [subscription |-> subscription]
              [] type \in {"customer.subscription.updated",
                           "customer.subscription.deleted"} -> subscription
              [] OTHER -> [id |-> session.id]
    IN  [type |-> type, data |-> [object |-> object]]

\* events nobody paid for, as anyone can post them
ForgedEvents ==
    {[type |-> "checkout.session.completed",
      data |-> [object |-> [id |-> MissingSession, customer |-> CustomerOf(u),
                            payment_intent |-> IntentOf(MissingSession),
                            metadata |-> [userId |-> u, planName |-> "premium",
                                          planType |-> "monthly"]]]] :
        u \in TokenUsers}

PaySequential == last = Idle /\ now < MaxPayClock

PayUnchanged == UNCHANGED today /\ OrderUnchanged

FreeSessions == SessionIds \ DOMAIN sessions

RouteDone(name, userId, body, gatewayOk, r) ==
    /\ plans' = r.plans
    /\ users' = r.users
    /\ sessions' = r.sessions
    /\ last' = [op |-> name, userId |-> userId, body |-> body,
                gatewayOk |-> gatewayOk, status |-> r.status,
                plansBefore |-> plans, usersBefore |-> users,
                sessionsBefore |-> sessions]
    /\ now' = now + 1
    /\ PayUnchanged

CreateCheckout(userId, body, gatewayOk) ==
    /\ PaySequential
    /\ (body.planName # "free" /\ gatewayOk) => FreeSessions # {}
    /\ LET sessionId == IF FreeSessions = {} THEN MissingSession
                        ELSE CHOOSE c \in FreeSessions :
                                 c = "cs_1" \/ "cs_1" \notin FreeSessions
       IN  RouteDone("POST /create-checkout", userId, body, gatewayOk,
                     createCheckoutRoute(plans, users, sessions, userId, body,
                                         sessionId, gatewayOk, today))

\* the customer pays the session at the gateway
CustomerPays(c) ==
    /\ PaySequential
    /\ c \in DOMAIN sessions
    /\ sessions[c].payment_status = "unpaid"
    /\ sessions' = [sessions EXCEPT ![c] =
                       Spread(@, [payment_status |-> "paid",
                                  payment_intent |-> IntentOf(c),
                                  subscription |->
                                      IF @.metadata.planType = "monthly"
                                      THEN SubscriptionOf(c) ELSE Null])]
    /\ now' = now + 1
    /\ UNCHANGED <<plans, users, last>>
    /\ PayUnchanged

PaymentSuccess(userId, body, gatewayOk, again) ==
    /\ PaySequential
    /\ ~Has(body, "stripeSessionId") => again = gatewayOk
    /\ RouteDone("POST /payment-success", userId, body, gatewayOk,
                 paymentSuccessRoute(plans, users, sessions, userId, body,
                                     gatewayOk, again, today))

CurrentPlan(userId) ==
    /\ PaySequential
    /\ RouteDone("GET /current-plan", userId, <<>>, TRUE,
                 currentPlanRoute(plans, users, sessions, userId, today))

UpgradePlan(userId, body) ==
    /\ PaySequential
    /\ RouteDone("POST /upgrade-plan", userId, body, TRUE,
                 upgradePlanRoute(plans, users, sessions, userId, body, today))

CancelPlan(userId) ==
    /\ PaySequential
    /\ RouteDone("POST /cancel-plan", userId, <<>>, TRUE,
                 cancelPlanRoute(plans, users, sessions, userId, today))

\* the endpoint is given a request
WebhookDone(req) ==
    RouteDone("POST /webhook", Null, req, req.stripeKey,
              planWebhookRoute(plans, users, sessions, req, today))

\* the gateway delivers an event about a paid session, with its signature
GatewayWebhook(c, type, carried, stripeKey) ==
    /\ PaySequential
    /\ c \in Paid(sessions)
    /\ type = "checkout.session.completed" => carried
    /\ WebhookDone([stripeKey |-> stripeKey, sigOk |-> TRUE,
                    event |-> GatewayEvent(sessions[c], type, carried)])

\* anyone posts an event; it cannot carry the gateway's signature
ForgedWebhook(e) ==
    /\ PaySequential
    /\ WebhookDone([stripeKey |-> TRUE, sigOk |-> FALSE, event |-> e])

InitPay ==
    /\ orders = NoOrders
    /\ now = 0
    /\ last = Idle
    /\ flight = NoFlight
    /\ event = NoEvent
    /\ orig = NoOrders
    /\ hist = <<>>
    /\ overlapped = FALSE
    /\ plans = NoPlans
    /\ users = PayingUsers
    /\ today = 0
    /\ sessions = NoSessions

NextPay ==
    \/ \E u \in TokenUsers, b \in CheckoutBodies, g \in BOOLEAN :
           CreateCheckout(u, b, g)
    \/ \E c \in SessionIds : CustomerPays(c)
    \/ \E u \in TokenUsers, b \in PaymentSuccessBodies, g \in BOOLEAN, a \in BOOLEAN :
           PaymentSuccess(u, b, g, a)
    \/ \E u \in TokenUsers : CurrentPlan(u)
    \/ \E u \in TokenUsers, b \in UpgradeBodies : UpgradePlan(u, b)
    \/ \E u \in TokenUsers : CancelPlan(u)
    \/ \E c \in SessionIds, ty \in GatewayEventTypes, m \in BOOLEAN, k \in BOOLEAN :
           GatewayWebhook(c, ty, m, k)
    \/ \E e \in ForgedEvents : ForgedWebhook(e)
    \/ Respond

SpecPay == InitPay /\ [][NextPay]_vars

\* the gateway holds a paid session of that user for that plan
Confirmed(userId, planName) ==
    \E c \in Paid(sessions) :
        /\ sessions[c].metadata.userId = userId
        /\ sessions[c].metadata.planName = planName

\* C25: a paid plan (basic, premium, enterprise) is active for a provider
\* only if the gateway has confirmed a successful payment made for that
\* provider and that plan.
C25_PaidPlanAfterPayment ==
    \A u \in DOMAIN plans :
        (plans[u].status = "active" /\ plans[u].planName \in PaidPlans)
            => Confirmed(u, plans[u].planName)

\* /payment-success was posted with a payment intent the gateway does not
\* know, no session was ever paid, and the caller's basic plan is active
C25_Case ==
    /\ last.op = "POST /payment-success"
    /\ ~Has(last.body, "stripeSessionId")
    /\ last.status = 200
    /\ Paid(sessions) = {}
    /\ last.userId \notin DOMAIN last.plansBefore
    /\ plans[last.userId].planName = "basic"
    /\ plans[last.userId].status = "active"

(***************************************************************************)
(* Properties of the order events handled one at a time (Spec).            *)
(***************************************************************************)
\* the statuses of an order that is past its confirmation
LateStatuses == {"in_progress", "completed", "cancelled", "refunded"}

\* C27: a success event for an order whose status is in_progress, completed,
\* cancelled or refunded makes paymentStatus paid and leaves the status what
\* it was.
C27_ConfirmsOnlyPending ==
    (/\ OwnOrderEvent(SuccessTypes)
     /\ last.req.fault = 0
     /\ last.before[EventOrder].status \in LateStatuses)
        => /\ orders[EventOrder].paymentStatus = "paid"
           /\ orders[EventOrder].status = last.before[EventOrder].status

\* a success event was handled for a completed order, which is confirmed
C27_Case ==
    /\ OwnOrderEvent(SuccessTypes)
    /\ last.req.fault = 0
    /\ ~last.raised
    /\ last.before[EventOrder].status = "completed"
    /\ orders[EventOrder].status = "confirmed"

\* C28: a payment_intent.payment_failed event for an order whose
\* paymentStatus is paid does not move paymentStatus to failed.
C28_PaidStaysPaid ==
    (/\ OwnOrderEvent({"payment_intent.payment_failed"})
     /\ last.before[EventOrder].paymentStatus = "paid")
        => orders[EventOrder].paymentStatus # "failed"

\* a failed event was handled for a paid order, which is failed
C28_Case ==
    /\ OwnOrderEvent({"payment_intent.payment_failed"})
    /\ last.req.fault = 0
    /\ last.before[EventOrder].paymentStatus = "paid"
    /\ orders[EventOrder].paymentStatus = "failed"

\* C29: after the handler of a success event returns, whether or not one of
\* its two updates failed, either paymentStatus = paid and status = confirmed
\* are both stored, or the handler changed neither field.
C29_AllOrNothing ==
    OwnOrderEvent(SuccessTypes)
        => \/ /\ orders[EventOrder].paymentStatus = "paid"
              /\ orders[EventOrder].status = "confirmed"
           \/ /\ orders[EventOrder].paymentStatus
                     = last.before[EventOrder].paymentStatus
              /\ orders[EventOrder].status = last.before[EventOrder].status

\* the second update of a success event was refused: the order is paid and
\* is not confirmed
C29_Case ==
    /\ OwnOrderEvent(SuccessTypes)
    /\ last.req.fault = 2
    /\ last.raised
    /\ last.before[EventOrder].paymentStatus = "pending"
    /\ orders[EventOrder].paymentStatus = "paid"
    /\ orders[EventOrder].status # "confirmed"

\* the request handled last is a verified order-payment event of a handled
\* type
OrderPaymentEvent ==
    /\ last.op = "webhook"
    /\ Verified(last.req)
    /\ last.req.event.type \in RecognisedTypes
    /\ IsOrderPayment(last.req.event)

\* C30: a verified order-payment event whose metadata.customerId is not the
\* customerId of the order it names changes neither the status nor the
\* paymentStatus of that order, and one naming an order that does not exist
\* changes no order.
C30_ForeignEventChangesNothing ==
    OrderPaymentEvent
        => IF EventOrder \in DOMAIN last.before
           THEN last.before[EventOrder].customerId # last.req.event.metadata.customerId
                    => /\ orders[EventOrder].status = last.before[EventOrder].status
                       /\ orders[EventOrder].paymentStatus
                              = last.before[EventOrder].paymentStatus
           ELSE orders = last.before

\* a success event naming a stored pending order and another customer was
\* handled with no store fault, and the order is as it was
C30_Witness ==
    /\ OrderPaymentEvent
    /\ last.req.event.type \in SuccessTypes
    /\ last.req.fault = 0
    /\ EventOrder \in DOMAIN last.before
    /\ last.before[EventOrder].customerId # last.req.event.metadata.customerId
    /\ last.before[EventOrder].status = "pending"
    /\ last.raised
    /\ last.status = 200
    /\ orders = last.before

(***************************************************************************)
(* Two calls of the order service on one order, interleaved: the webhook's *)
(* updatePaymentStatus(order, 'paid') and another actor's                  *)
(* updateOrderStatus(order, s).  Each is updateOrder: it awaits its read   *)
(* of the order, then checks, merges and awaits the write of the merged    *)
(* document.                                                               *)
(***************************************************************************)
RaceCalls == {"updatePaymentStatus", "updateOrderStatus"}

\* the actor and the status of the updateOrderStatus call
RaceInputs ==
    {[status |-> s, userId |-> a[1], userType |-> a[2]] :
        s \in ORDER_STATUS, a \in {<<"u2", "provider">>, <<"u3", "admin">>}}

RacedOrder == CHOOSE o \in OrderIds : TRUE

\* the arguments updateOrder is given by each call
RaceData(c, t) ==
    IF c = "updatePaymentStatus" THEN [paymentStatus |-> "paid"]
    ELSE IF event.status = "in_progress"
    THEN [status |-> event.status, actualStartTime |-> t]
    ELSE IF event.status = "completed"
    THEN [status |-> event.status, actualEndTime |-> t]
    ELSE [status |-> event.status]

RaceUser(c) ==
    IF c = "updatePaymentStatus"
    THEN [userId |-> orig[RacedOrder].customerId, userType |-> "client"]
    ELSE [userId |-> event.userId, userType |-> event.userType]

\* updateOrder: await getOrderById
RaceRead(c) ==
    /\ flight[c].pc = "read"
    /\ flight' = [flight EXCEPT
                     ![c] = [pc |-> "write",
                             existingOrder |-> getOrderById(orders, RacedOrder).data]]
    /\ overlapped' = (overlapped \/ \E e \in RaceCalls \ {c} : flight[e].pc = "write")
    /\ UNCHANGED <<orders, now, last, event, orig, hist>>
    /\ PlanUnchanged

\* updateOrder: the checks, the merge and await update(updatedOrder)
RaceWrite(c) ==
    /\ flight[c].pc = "write"
    /\ LET b == BuildUpdate(flight[c].existingOrder, RaceData(c, now + 1),
                            RaceUser(c).userId, RaceUser(c).userType, now + 1)
       IN  IF ~b.ok
           THEN /\ flight' = [flight EXCEPT ![c] = [pc |-> "failed"]]
                /\ UNCHANGED <<orders, now, hist>>
           ELSE /\ orders' = StoreUpdate(orders, RacedOrder, b.doc)
                /\ now' = now + 1
                /\ flight' = [flight EXCEPT ![c] = [pc |-> "done"]]
                /\ hist' = Append(hist, c)
    /\ UNCHANGED <<last, event, orig, overlapped>>
    /\ PlanUnchanged

InitRace ==
    /\ orders \in CreatedStores
    /\ orig = orders
    /\ event \in RaceInputs
    /\ now = 1
    /\ last = Idle
    /\ flight = [c \in RaceCalls |-> [pc |-> "read"]]
    /\ hist = <<>>
    /\ overlapped = FALSE
    /\ plans = NoPlans
    /\ users = NoUsers
    /\ today = 0
    /\ sessions = NoSessions

NextRace == \E c \in RaceCalls : RaceRead(c) \/ RaceWrite(c)

SpecRace == InitRace /\ [][NextRace]_vars

\* both calls have returned without an error
BothDone == \A c \in RaceCalls : flight[c].pc = "done"

\* C26: when updatePaymentStatus(order, paid) and another actor's
\* updateOrderStatus(order, s) have both run, in whatever interleaving of
\* their reads and writes, the order has paymentStatus = paid and status = s.
C26_BothTakeEffect ==
    BothDone
        => /\ orders[RacedOrder].paymentStatus = "paid"
           /\ orders[RacedOrder].status = event.status

\* both calls read the pending order before either wrote; the status was
\* written last and the order is not paid
C26_Case ==
    /\ BothDone
    /\ overlapped
    /\ hist = <<"updatePaymentStatus", "updateOrderStatus">>
    /\ orig[RacedOrder].paymentStatus = "pending"
    /\ event.status = "in_progress"
    /\ orders[RacedOrder].status = "in_progress"
    /\ orders[RacedOrder].paymentStatus = "pending"

====
